---- MODULE Spec2Model ----
(***************************************************************************)
(* Model of src/app.py: the /execute handler, execute_quantum_code,        *)
(* get_animation_sequence, statevector_to_bloch_coords and                 *)
(* calculate_grid_dimensions.                                              *)
(*                                                                         *)
(* Amplitudes are kept exactly: a statevector is a function from basis     *)
(* index (bit q of the index is qubit q, Qiskit's little-endian order) to  *)
(* a Gaussian integer <<re, im>>, together with an exponent h; the         *)
(* amplitude it stands for is amp[i] / sqrt(2)^h.  The gate set of the     *)
(* model (h, x, s, cx) keeps every amplitude in that form.  Bloch          *)
(* coordinates are exact rationals, a numerator triple over a common       *)
(* denominator in lowest terms.  The floats of the program round these     *)
(* values to within an ulp or so; the model does not represent rounding.   *)
(***************************************************************************)
EXTENDS Integers, Sequences, FiniteSets, TLC

VARIABLES
    pc,                 \* "idle" | "loop" | "done" (| "grid", "grid_done")
    qc,                 \* the circuit exec found: None or Some([n, data])
    num_qubits,         \* local num_qubits of execute_quantum_code
    current_state,      \* local current_state of get_animation_sequence
    step_circuit,       \* instructions appended to step_circuit so far
    sequence,           \* local sequence of get_animation_sequence
    gate_applications,  \* gates the simulator has applied during this run
    reducer_failed,     \* the except branch of statevector_to_bloch_coords ran
    gas_invoked,        \* get_animation_sequence has been called
    result,             \* what execute_quantum_code returned: None or Some
    response,           \* the JSON body of /execute: None or Some
    grid                \* calculate_grid_dimensions on its own: input, output

vars == <<pc, qc, num_qubits, current_state, step_circuit, sequence,
          gate_applications, reducer_failed, gas_invoked, result, response,
          grid>>

\* ------------------------------------------------------------------ bounds
MAX_QUBITS == 9
MaxN == 2
MaxOps == 2
MaxGridN == 60

\* ------------------------------------------------------- Python's None
None == <<>>
Some(v) == <<v>>

\* ------------------------------------------------------ complex numbers
CAdd(a, b) == <<a[1] + b[1], a[2] + b[2]>>
CSub(a, b) == <<a[1] - b[1], a[2] - b[2]>>
CMul(a, b) == <<a[1] * b[1] - a[2] * b[2], a[1] * b[2] + a[2] * b[1]>>
CConj(a) == <<a[1], 0 - a[2]>>
CZero == <<0, 0>>

Bit(i, q) == (i \div (2 ^ q)) % 2
Flip(i, q) == IF Bit(i, q) = 0 THEN i + 2 ^ q ELSE i - 2 ^ q

Abs(v) == IF v < 0 THEN 0 - v ELSE v

RECURSIVE GCD(_, _)
GCD(a, b) == IF b = 0 THEN a ELSE GCD(b, a % b)

\* ------------------------------------------------- the circuit and gates
\* An instruction is [gate |-> name, qubits |-> <<indices>>].
UnitaryGates == {"h", "x", "s", "cx"}
GateNames == UnitaryGates \cup {"measure"}
GateArity(g) == IF g = "cx" THEN 2 ELSE 1

Distinct(qs) == \A i, j \in 1..Len(qs) : i # j => qs[i] # qs[j]

\* What Qiskit refuses when an instruction is added to an n-qubit circuit:
\* an index outside 0..n-1, a wrong number of qubits for the gate, a qubit
\* named twice.
Malformed(op, n) ==
    \/ Len(op.qubits) # GateArity(op.gate)
    \/ \E i \in 1..Len(op.qubits) : op.qubits[i] < 0 \/ op.qubits[i] >= n
    \/ ~Distinct(op.qubits)

\* Statevector.from_label('0' * n): |0...0>.  The label must match
\* [01rl+-]+ , so the empty label of a 0-qubit circuit is refused.
FromLabelRaises(n) == n = 0
FromLabelZeros(n) ==
    [amp |-> [i \in 0..(2 ^ n - 1) |-> IF i = 0 THEN <<1, 0>> ELSE CZero],
     h |-> 0]

\* One unitary gate applied to a statevector; identity on the other qubits.
ApplyGate(sv, op) ==
    LET a == sv.amp
        q == op.qubits[1]
    IN  CASE op.gate = "h" ->
               [amp |-> [i \in DOMAIN a |->
                            IF Bit(i, q) = 0
                            THEN CAdd(a[i], a[Flip(i, q)])
                            ELSE CSub(a[Flip(i, q)], a[i])],
                h |-> sv.h + 1]
          [] op.gate = "x" ->
               [amp |-> [i \in DOMAIN a |-> a[Flip(i, q)]], h |-> sv.h]
          [] op.gate = "s" ->
               [amp |-> [i \in DOMAIN a |->
                            IF Bit(i, q) = 1 THEN CMul(<<0, 1>>, a[i]) ELSE a[i]],
                h |-> sv.h]
          [] op.gate = "cx" ->
               [amp |-> [i \in DOMAIN a |->
                            IF Bit(i, q) = 1 THEN a[Flip(i, op.qubits[2])]
                            ELSE a[i]],
                h |-> sv.h]

\* Statevector.from_instruction(step_circuit): the circuit is simulated from
\* |0...0> through every instruction it holds.
RECURSIVE EvolvePrefix(_, _, _)
EvolvePrefix(circ, n, k) ==
    IF k = 0 THEN FromLabelZeros(n)
    ELSE ApplyGate(EvolvePrefix(circ, n, k - 1), circ[k])

FromInstruction(circ, n) == EvolvePrefix(circ, n, Len(circ))

\* The number of gate applications FromInstruction(circ, n) performs.
FromInstructionCost(circ) == Len(circ)

\* QuantumCircuit.append(gate, qubits) at line 111 passes no classical bits:
\* an instruction that needs one (measure) is refused there.
AppendRaises(op, n) == op.gate = "measure" \/ Malformed(op, n)

\* -------------------------------------------------- reduction to a qubit
\* The term of basis index i in entry (a, b) of the reduced matrix of qubit
\* q: amp[q=a] * conj(amp[q=b]) at the setting of the other qubits that i
\* gives (indices with bit q set name no further setting).
RhoTerm(sv, q, a, b, i) ==
    IF Bit(i, q) = 0
    THEN CMul(sv.amp[i + a * 2 ^ q], CConj(sv.amp[i + b * 2 ^ q]))
    ELSE CZero

\* The sum of RhoTerm over i in lo..hi, by halves.
RECURSIVE RhoSum(_, _, _, _, _, _)
RhoSum(sv, q, a, b, lo, hi) ==
    IF lo > hi THEN CZero
    ELSE IF lo = hi THEN RhoTerm(sv, q, a, b, lo)
    ELSE LET mid == (lo + hi) \div 2
         IN  CAdd(RhoSum(sv, q, a, b, lo, mid), RhoSum(sv, q, a, b, mid + 1, hi))

\* Mutant of RhoEntry: the other qubits are not traced over, only their
\* all-zero setting is read.
RhoEntryNoTrace(sv, q, n, a, b) ==
    CMul(sv.amp[a * 2 ^ q], CConj(sv.amp[b * 2 ^ q]))

\* partial_trace(DensityMatrix(sv), all qubits but q).data[a, b], times 2^h:
\* the sum over the settings of the other qubits of amp[q=a] * conj(amp[q=b]).
RhoEntry(sv, q, n, a, b) == RhoSum(sv, q, a, b, 0, 2 ^ n - 1)

\* A coordinate triple num / den in lowest terms.
Reduce(x, y, z, d) ==
    LET g == GCD(GCD(GCD(Abs(x), Abs(y)), Abs(z)), d)
    IN  [num |-> <<x \div g, y \div g, z \div g>>, den |-> d \div g]

DefaultCoords == [num |-> <<0, 0, 1>>, den |-> 1]

\* Mutants of BlochZ: the operands swapped; the difference written as a sum.
BlochZFlipped(rho00, rho11) == rho11[1] - rho00[1]
BlochZSum(rho00, rho11) == rho00[1] + rho11[1]

\* Lines 72-74.
BlochX(rho01) == 2 * rho01[1]
BlochY(rho01) == 0 - 2 * rho01[2]
BlochZ(rho00, rho11) == rho00[1] - rho11[1]

\* statevector_to_bloch_coords; raises says that something in the try block
\* raised, which the except branch turns into the default.
statevector_to_bloch_coords(sv, q, n, raises) ==
    IF raises THEN DefaultCoords
    ELSE LET rho01 == RhoEntry(sv, q, n, 0, 1)
             rho00 == RhoEntry(sv, q, n, 0, 0)
             rho11 == RhoEntry(sv, q, n, 1, 1)
         IN  Reduce(BlochX(rho01), BlochY(rho01), BlochZ(rho00, rho11), 2 ^ sv.h)

\* The bloch_data list of one step; failing is None or Some(q), the qubit
\* whose reduction raises.
BlochData(sv, n, failing) ==
    [i \in 1..n |->
        [qubit_index |-> i - 1,
         coordinates |-> statevector_to_bloch_coords(sv, i - 1, n, failing = Some(i - 1)),
         label |-> <<"Qubit", i - 1>>]]

InitialStep(sv, n, failing) ==
    [step |-> 0, gate_name |-> "Initial State", target_qubits |-> None,
     bloch_data |-> BlochData(sv, n, failing)]

\* Mutant of GateStep: the step is numbered by the loop index, without + 1.
GateStepZeroBased(k, op, sv, n, failing) ==
    [step |-> k - 1, gate_name |-> op.gate, target_qubits |-> Some(op.qubits),
     bloch_data |-> BlochData(sv, n, failing)]

GateStep(k, op, sv, n, failing) ==
    [step |-> k, gate_name |-> op.gate, target_qubits |-> Some(op.qubits),
     bloch_data |-> BlochData(sv, n, failing)]

\* ------------------------------------------------------ grid dimensions
RECURSIVE CeilSqrtFrom(_, _)
CeilSqrtFrom(n, r) == IF r * r >= n THEN r ELSE CeilSqrtFrom(n, r + 1)
CeilSqrt(n) == CeilSqrtFrom(n, 0)
CeilDiv(a, b) == (a + b - 1) \div b

\* Mutant of calculate_grid_dimensions: a single row up to 3 qubits, as the
\* comment of line 33 has it.
GridSingleRowToThree(n) ==
    IF n <= 0 THEN <<1, 1>>
    ELSE IF n <= 3 THEN <<1, n>>
    ELSE IF n <= 4 THEN <<2, 2>>
    ELSE IF n <= 6 THEN <<2, 3>>
    ELSE IF n <= 9 THEN <<3, 3>>
    ELSE LET rows == CeilSqrt(n) IN <<rows, CeilDiv(n, rows)>>

calculate_grid_dimensions(n) ==
    IF n <= 0 THEN <<1, 1>>
    ELSE IF n <= 2 THEN <<1, n>>
    ELSE IF n <= 4 THEN <<2, 2>>
    ELSE IF n <= 6 THEN <<2, 3>>
    ELSE IF n <= 9 THEN <<3, 3>>
    ELSE LET rows == CeilSqrt(n) IN <<rows, CeilDiv(n, rows)>>

\* ------------------------------------------------------------ requests
\* The posted code, by what the program reads of it.  blank: code.strip()
\* is empty.  literal: the digits of the first "QuantumCircuit(<digits>" in
\* the text, None when the text has none (QuantumCircuit(n), say).  subs:
\* the numbers the text holds in square brackets.  script: what exec(code)
\* does: it raises, or it leaves no circuit, or it leaves the circuit of n
\* qubits that the statements stmts were called on in order.
Msg(text, args) == [text |-> text, args |-> args]

ValidOps(n) ==
    {[gate |-> g, qubits |-> <<q>>] : g \in {"h", "x", "s", "measure"}, q \in 0..(n - 1)}
    \cup {[gate |-> "cx", qubits |-> <<p[1], p[2]>>] :
             p \in {r \in (0..(n - 1)) \X (0..(n - 1)) : r[1] # r[2]}}

\* A statement Qiskit refuses: an index out of range, an arity mismatch.
BadOps(n) == {[gate |-> "x", qubits |-> <<n>>], [gate |-> "cx", qubits |-> <<0>>]}

Ops(n) == ValidOps(n) \cup BadOps(n)

\* Code that builds a circuit of n qubits and calls stmts on it, spelled the
\* way text shape t says.
CircuitRequest(n, stmts, t) ==
    [blank |-> FALSE, literal |-> t.literal, subs |-> t.subs,
     script |-> [has_circuit |-> TRUE, n |-> n, stmts |-> stmts, raises |-> None]]

\* Code that builds no circuit, or raises (with and without a message).
PlainScripts ==
    {[has_circuit |-> FALSE, n |-> 0, stmts |-> <<>>, raises |-> r] :
        r \in {None, Some(Msg("", <<>>)), Some(Msg("division by zero", <<>>))}}

TextShapes(n) ==
    {[literal |-> Some(n), subs |-> {}],
     [literal |-> None, subs |-> {}],
     [literal |-> None, subs |-> {0, 1}],
     [literal |-> None, subs |-> {MAX_QUBITS}],
     [literal |-> Some(MAX_QUBITS + 1), subs |-> {}]}

\* The requests that are not a small circuit: blank code, code without a
\* circuit, and a circuit one qubit over the cap, with no gate.
OtherRequests ==
    {[blank |-> TRUE, literal |-> None, subs |-> {},
      script |-> [has_circuit |-> FALSE, n |-> 0, stmts |-> <<>>, raises |-> None]]}
    \cup UNION {{[blank |-> FALSE, literal |-> t.literal, subs |-> t.subs, script |-> sc] :
                    t \in TextShapes(sc.n)} : sc \in PlainScripts}
    \cup {CircuitRequest(MAX_QUBITS + 1, <<>>, t) : t \in TextShapes(MAX_QUBITS + 1)}

SetMax(S) == CHOOSE m \in S : \A x \in S : x <= m

parse_qubit_count(req) ==
    IF req.literal # None THEN req.literal[1]
    ELSE IF req.subs # {} THEN SetMax(req.subs) + 1
    ELSE 1

\* exec(code, namespace): None, or Some(message of the exception raised).
ExecRaises(script) ==
    IF \E i \in 1..Len(script.stmts) : Malformed(script.stmts[i], script.n)
    THEN Some(Msg("CircuitError", <<>>))
    ELSE script.raises

\* The first QuantumCircuit of the namespace after exec.
FindCircuit(script) ==
    IF script.has_circuit THEN Some([n |-> script.n, data |-> script.stmts])
    ELSE None

\* ------------------------------------------------------------ responses
Result(seq, n, err) == [animation_sequence |-> seq, num_qubits |-> n, error |-> err]

\* Python's truth value of the error string: None and '' are false.
Truthy(err) == err # None /\ err[1].text # ""

\* Lines 194-213 of execute().
Respond(res) ==
    IF Truthy(res.error)
    THEN [success |-> FALSE, error |-> res.error, animation_sequence |-> None]
    ELSE LET dims == calculate_grid_dimensions(res.num_qubits)
         IN  [success |-> TRUE, error |-> None,
              animation_sequence |-> res.animation_sequence,
              num_qubits |-> res.num_qubits,
              grid_rows |-> dims[1], grid_cols |-> dims[2]]

NoCodeResponse ==
    [success |-> FALSE, error |-> Some(Msg("No code provided", <<>>)),
     animation_sequence |-> None]

TooManyMsg(n) ==
    Msg("Too many qubits for visualization. Maximum supported, requested", <<MAX_QUBITS, n>>)

\* The except branch of execute_quantum_code.
ExceptResult(msg) == Result(None, 1, Some(msg))

\* The qubits whose reduction may raise during one step: none, or one.
FailChoices(n) == {None} \cup {Some(q) : q \in 0..(n - 1)}

\* --------------------------------------------------------------- actions
Init ==
    /\ pc = "idle"
    /\ qc = None
    /\ num_qubits = None
    /\ current_state = None
    /\ step_circuit = <<>>
    /\ sequence = <<>>
    /\ gate_applications = 0
    /\ reducer_failed = FALSE
    /\ gas_invoked = FALSE
    /\ result = None
    /\ response = None
    /\ grid = [n |-> 0, dims |-> None]

\* execute_quantum_code returns res and execute() answers with it.
Returned(res) ==
    /\ pc' = "done"
    /\ result' = Some(res)
    /\ response' = Some(Respond(res))

\* POST /execute: execute() up to the call of execute_quantum_code, that call
\* up to get_animation_sequence, and get_animation_sequence up to its loop
\* (lines 184-194, 137-171, 85-105).  failing: the qubit whose reduction
\* raises while step 0 is computed, if any.
Execute(req, failing) ==
    /\ UNCHANGED <<gate_applications, grid>>
    /\ IF req.blank
       THEN /\ pc' = "done"
            /\ result' = None
            /\ response' = Some(NoCodeResponse)
            /\ UNCHANGED <<qc, num_qubits, current_state, step_circuit, sequence,
                           reducer_failed, gas_invoked>>
       ELSE LET parsed == parse_qubit_count(req)
                raised == ExecRaises(req.script)
                found == FindCircuit(req.script)
            IN  IF parsed > MAX_QUBITS
                THEN /\ Returned(Result(None, parsed, Some(TooManyMsg(parsed))))
                     /\ num_qubits' = parsed
                     /\ UNCHANGED <<qc, current_state, step_circuit, sequence,
                                    reducer_failed, gas_invoked>>
                ELSE IF raised # None
                THEN /\ Returned(ExceptResult(raised[1]))
                     /\ num_qubits' = parsed
                     /\ UNCHANGED <<qc, current_state, step_circuit, sequence,
                                    reducer_failed, gas_invoked>>
                ELSE IF found = None
                THEN /\ Returned(Result(None, parsed,
                                        Some(Msg("No quantum circuit found in code", <<>>))))
                     /\ num_qubits' = parsed
                     /\ UNCHANGED <<qc, current_state, step_circuit, sequence,
                                    reducer_failed, gas_invoked>>
                ELSE LET n == found[1].n
                     IN  /\ qc' = found
                         /\ num_qubits' = n
                         /\ gas_invoked' = TRUE
                         /\ IF FromLabelRaises(n)
                            THEN /\ Returned(ExceptResult(
                                        Msg("Label contains invalid characters.", <<>>)))
                                 /\ UNCHANGED <<current_state, step_circuit, sequence,
                                                reducer_failed>>
                            ELSE /\ pc' = "loop"
                                 /\ current_state' = FromLabelZeros(n)
                                 /\ sequence' = <<InitialStep(current_state', n, failing)>>
                                 /\ step_circuit' = <<>>
                                 /\ reducer_failed' = (failing # None)
                                 /\ UNCHANGED <<result, response>>

Post ==
    /\ pc = "idle"
    /\ \/ \E req \in OtherRequests : \E failing \in FailChoices(req.script.n) :
             Execute(req, failing)
       \/ \E n \in 0..MaxN : \E len \in 0..MaxOps : \E stmts \in [1..len -> Ops(n)] :
          \E t \in TextShapes(n) : \E failing \in FailChoices(n) :
             Execute(CircuitRequest(n, stmts, t), failing)

\* One iteration of the loop of get_animation_sequence (lines 107-131).  An
\* exception of line 111 leaves through the except branch of
\* execute_quantum_code.  A run of the model takes the except branch of
\* statevector_to_bloch_coords at most once.
LoopIteration(failing) ==
    /\ Len(sequence) - 1 < Len(qc[1].data)
    /\ failing # None => ~reducer_failed
    /\ UNCHANGED <<qc, num_qubits, gas_invoked, grid>>
    /\ LET k == Len(sequence)
           op == qc[1].data[k]
           n == num_qubits
       IN  IF AppendRaises(op, n)
           THEN /\ Returned(ExceptResult(Msg("CircuitError", <<k>>)))
                /\ UNCHANGED <<current_state, step_circuit, sequence,
                               gate_applications, reducer_failed>>
           ELSE \E circ \in {Append(step_circuit, op)} :
                \E sv \in {FromInstruction(circ, n)} :
                    /\ step_circuit' = circ
                    /\ current_state' = sv
                    /\ gate_applications' = gate_applications + FromInstructionCost(circ)
                    /\ sequence' = Append(sequence, GateStep(k, op, sv, n, failing))
                    /\ reducer_failed' = (reducer_failed \/ failing # None)
                    /\ UNCHANGED <<pc, result, response>>

LoopStep ==
    /\ pc = "loop"
    /\ \E failing \in FailChoices(num_qubits) : LoopIteration(failing)

\* The loop is over: lines 133 and 173, and execute() answers.
Finish ==
    /\ pc = "loop"
    /\ Len(sequence) - 1 = Len(qc[1].data)
    /\ Returned(Result(Some(sequence), num_qubits, None))
    /\ UNCHANGED <<qc, num_qubits, current_state, step_circuit, sequence,
                   gate_applications, reducer_failed, gas_invoked, grid>>

Next ==
    \/ Post
    \/ LoopStep
    \/ Finish

Spec == Init /\ [][Next]_vars

\* ------------------------------------- calculate_grid_dimensions alone
GridInputs == (0 - MaxGridN)..MaxGridN

GridInit ==
    /\ pc = "grid"
    /\ qc = None
    /\ num_qubits = None
    /\ current_state = None
    /\ step_circuit = <<>>
    /\ sequence = <<>>
    /\ gate_applications = 0
    /\ reducer_failed = FALSE
    /\ gas_invoked = FALSE
    /\ result = None
    /\ response = None
    /\ grid \in {[n |-> k, dims |-> None] : k \in GridInputs}

GridCall ==
    /\ pc = "grid"
    /\ pc' = "grid_done"
    /\ grid' = [grid EXCEPT !.dims = Some(calculate_grid_dimensions(grid.n))]
    /\ UNCHANGED <<qc, num_qubits, current_state, step_circuit, sequence,
                   gate_applications, reducer_failed, gas_invoked, result, response>>

GridNext == GridCall

GridSpec == GridInit /\ [][GridNext]_vars

\* =============================================================== claims
\* What a finished run returned.
Returned_seq == result[1].animation_sequence
HasTrace == pc = "done" /\ result # None /\ Returned_seq # None

NormSq(c) == c.num[1] * c.num[1] + c.num[2] * c.num[2] + c.num[3] * c.num[3]
OnSphere(c) == NormSq(c) = c.den * c.den
InBall(c) == NormSq(c) <= c.den * c.den
AtOrigin(c) == c.num = <<0, 0, 0>>
HasCx(circ, k) == \E i \in 1..k : circ[i].gate = "cx"

\* C1: a run that succeeds on a circuit of m operations returns m+1 steps,
\* numbered 0..m in order, and step k (1 <= k <= m) records the gate name and
\* the target qubits of the k-th operation of the circuit.
C1_TraceShape ==
    HasTrace =>
        LET seq == Returned_seq[1]
            data == qc[1].data
        IN  /\ Len(seq) = Len(data) + 1
            /\ \A i \in 1..Len(seq) : seq[i].step = i - 1
            /\ \A k \in 1..Len(data) :
                  /\ seq[k + 1].gate_name = data[k].gate
                  /\ seq[k + 1].target_qubits = Some(data[k].qubits)

\* C1 witness: a returned trace of three steps whose last gate is a cx.
C1_Witness ==
    /\ HasTrace
    /\ Len(Returned_seq[1]) = 3
    /\ Returned_seq[1][3].gate_name = "cx"
    /\ Returned_seq[1][2].gate_name = "h"

\* C2: for 1 <= n <= 9 qubits, step 0 of the trace holds one coordinate per
\* qubit 0..n-1 and each is exactly (0, 0, 1).
C2_InitialCoords ==
    (Len(sequence) >= 1 /\ num_qubits \in 1..MAX_QUBITS) =>
        /\ sequence[1].step = 0
        /\ Len(sequence[1].bloch_data) = num_qubits
        /\ \A i \in 1..num_qubits :
              /\ sequence[1].bloch_data[i].qubit_index = i - 1
              /\ sequence[1].bloch_data[i].coordinates = [num |-> <<0, 0, 1>>, den |-> 1]

\* C2 witness: step 0 of a 2-qubit run, computed without the except branch.
C2_Witness ==
    /\ pc = "loop"
    /\ num_qubits = 2
    /\ Len(sequence) = 1
    /\ ~reducer_failed

\* C3 (as claimed): once exec has left a circuit of more than MAX_QUBITS
\* qubits, get_animation_sequence is never invoked, and the run returns the
\* capacity error, naming the requested and the maximum count, and no
\* sequence.
C3_CapacityEnforced ==
    (qc # None /\ qc[1].n > MAX_QUBITS) =>
        /\ ~gas_invoked
        /\ pc = "done" =>
              /\ result # None
              /\ result[1].error = Some(TooManyMsg(qc[1].n))
              /\ result[1].animation_sequence = None

\* C4 (as claimed): a run in which anything failed (an exception reached
\* execute_quantum_code, or the reduction of some qubit raised at some step)
\* returns no animation sequence.
C4_AllOrNothing ==
    (pc = "done" /\ result # None /\ (reducer_failed \/ result[1].error # None)) =>
        result[1].animation_sequence = None

\* C5 (as claimed): when the reduction of some qubit raised at some step, the
\* run ends in an error result.
C5_ReducerFailureReported ==
    (pc = "done" /\ reducer_failed) =>
        /\ result # None
        /\ result[1].error # None
        /\ response[1].success = FALSE

\* C6: in a 2-qubit run, every coordinate of a step reached without a cx has
\* norm 1; and after h on one qubit and cx from it to the other, the reduced
\* Bloch vector of each qubit is (0, 0, 0).
BellPrefix(circ) ==
    /\ Len(circ) = 2
    /\ circ[1].gate = "h"
    /\ circ[2].gate = "cx"
    /\ circ[2].qubits[1] = circ[1].qubits[1]

C6_PureThenEntangled ==
    (Len(sequence) >= 1 /\ num_qubits = 2) =>
        /\ \A k \in 1..Len(sequence) :
              ~HasCx(qc[1].data, k - 1) =>
                  \A i \in 1..2 : OnSphere(sequence[k].bloch_data[i].coordinates)
        /\ BellPrefix(step_circuit) =>
              /\ \A q \in 0..1 :
                    statevector_to_bloch_coords(current_state, q, 2, FALSE)
                        = [num |-> <<0, 0, 0>>, den |-> 1]
              /\ ~reducer_failed =>
                    \A i \in 1..2 : AtOrigin(sequence[3].bloch_data[i].coordinates)

\* C6 witness: a 2-qubit run that has just recorded the step after h(0),
\* cx(0, 1), with no reduction having raised.
C6_Witness ==
    /\ Len(sequence) = 3
    /\ num_qubits = 2
    /\ ~reducer_failed
    /\ step_circuit = <<[gate |-> "h", qubits |-> <<0>>],
                        [gate |-> "cx", qubits |-> <<0, 1>>]>>
    /\ OnSphere(sequence[2].bloch_data[1].coordinates)
    /\ sequence[2].bloch_data[1].coordinates.num[1] # 0

\* C7: every coordinate (x, y, z) of a returned trace has x^2+y^2+z^2 <= 1.
C7_InUnitBall ==
    HasTrace =>
        \A k \in 1..Len(Returned_seq[1]) :
            \A i \in 1..Len(Returned_seq[1][k].bloch_data) :
                InBall(Returned_seq[1][k].bloch_data[i].coordinates)

\* C7 witness: a returned trace with a coordinate strictly inside the sphere
\* and one on it that points along y.
C7_Witness ==
    /\ HasTrace
    /\ \E k \in 1..Len(Returned_seq[1]) :
          \E i \in 1..Len(Returned_seq[1][k].bloch_data) :
              AtOrigin(Returned_seq[1][k].bloch_data[i].coordinates)
    /\ \E k \in 1..Len(Returned_seq[1]) :
          \E i \in 1..Len(Returned_seq[1][k].bloch_data) :
              Returned_seq[1][k].bloch_data[i].coordinates.num[1] # 0

C9_LinearGateApplications ==
    HasTrace => gate_applications = Len(qc[1].data)

\* C10 (as claimed): every response is a failure (success false, an error,
\* no sequence) or a success (success true, no error) that carries a
\* sequence.
C10_ResponseShape ==
    response # None =>
        \/ /\ response[1].success = FALSE
           /\ response[1].error # None
           /\ response[1].animation_sequence = None
        \/ /\ response[1].success = TRUE
           /\ response[1].error = None
           /\ response[1].animation_sequence # None

====
